---- MODULE Spec2Model ----
(***************************************************************************)
(* Model of src/main.py: the resumable batch driver that submits files to  *)
(* an API deployment, polls them to a terminal status and records every    *)
(* step in the SQLite table file_status.                                   *)
(*                                                                         *)
(* One run of api_deployment_batch_run is a pool of `width` workers, each  *)
(* running process_file for one file at a time.  Every statement of        *)
(* process_file that touches the ledger, the client or a shared counter is *)
(* one step of that file's worker.                                         *)
(***************************************************************************)
EXTENDS Integers, Sequences, FiniteSets, TLC

\* ------------------------------------------------------------------ bounds
NumFiles == 3      \* files enumerated by load_folder in the pool runs
PoolWidth == 2     \* parallel_call_count of the pool runs
MaxRuns == 2       \* invocations of the program against one ledger
MaxPolls == 2      \* non-terminal answers the remote gives to one file in a run
MaxItems == 2      \* items in a usage list of the payloads the aggregation is given

\* ------------------------------------------------------------------ values
\* Python's None / SQL NULL, and a present value.
None == [none |-> TRUE]
Some(v) == [some |-> v]

Terminal == {"COMPLETED", "ERROR"}
NonTerminal == {"PENDING", "EXECUTING"}

\* A response payload, as far as calculate_cost_and_tokens and
\* extract_error_message look at it:
\*   data  "empty"     no extraction_result, or an empty list
\*         "badjson"   extraction_result[0].result is text json.loads rejects
\*         "nonobject" extraction_result[0].result is JSON text of a non-object
\*         "object"    extraction_result[0].result is an object
\*   metadata          whether that object has a metadata object
\*   embedding, extraction_llm   the two lists of the metadata
\*   item_error        extraction_result[i].error, first non-empty one
\*   error             the top-level "error" key
Item(c, t) == [cost_in_dollars |-> c, tokens |-> t]
Body(d, m, e, l, ie, te) ==
    [data |-> d, metadata |-> m, embedding |-> e, extraction_llm |-> l,
     item_error |-> ie, error |-> te]
BodyPlain == Body("empty", FALSE, <<>>, <<>>, None, None)
BodyBadJson == Body("badjson", FALSE, <<>>, <<>>, None, None)
BodyNonObject == Body("nonobject", FALSE, <<>>, <<>>, None, None)
BodyMeta == Body("object", TRUE, <<Item(1, 10), Item(2, 20)>>, <<>>, None, None)
BodyRemoteError == Body("empty", FALSE, <<>>, <<>>, None, Some("RemoteError"))
BodyItemError == Body("empty", FALSE, <<>>, <<>>, Some("ItemError"), None)

\* {"error": str(e)}: the result process_file builds in its except branch.
ExceptionResult(msg) == [body |-> Body("empty", FALSE, <<>>, <<>>, None, Some(msg))]

\* The dict returned by client.structure_file / client.check_execution_status.
Response(st, code, ep, body) ==
    [execution_status |-> st, status_code |-> code,
     status_check_api_endpoint |-> ep, body |-> body]

\* ------------------------------------------------------------------ aggregation
RECURSIVE SumCost(_)
SumCost(s) == IF s = <<>> THEN 0 ELSE Head(s).cost_in_dollars + SumCost(Tail(s))

RECURSIVE SumTokens(_)
SumTokens(s) == IF s = <<>> THEN 0 ELSE Head(s).tokens + SumTokens(Tail(s))

\* extraction_data.get(...) / metadata.get(...) on a value that is no dict.
CalcRaises(result) == result.body.data = "nonobject"

\* calculate_cost_and_tokens starting every total at zero instead of None.
calculate_cost_and_tokens_ZeroWhenEmpty(result) ==
    LET b == result.body
        hasLists == b.data = "object" /\ b.metadata
        embedding_llm == IF hasLists THEN b.embedding ELSE <<>>
        extraction_llm == IF hasLists THEN b.extraction_llm ELSE <<>>
    IN  [total_embedding_cost |-> Some(SumCost(embedding_llm)),
         total_llm_cost |-> Some(SumCost(extraction_llm)),
         total_embedding_tokens |-> Some(SumTokens(embedding_llm)),
         total_llm_tokens |-> Some(SumTokens(extraction_llm))]

calculate_cost_and_tokens(result) ==
    LET b == result.body
        hasLists == b.data = "object" /\ b.metadata
        embedding_llm == IF hasLists THEN b.embedding ELSE <<>>
        extraction_llm == IF hasLists THEN b.extraction_llm ELSE <<>>
    IN  [total_embedding_cost |->
             IF embedding_llm # <<>> THEN Some(SumCost(embedding_llm)) ELSE None,
         total_llm_cost |->
             IF extraction_llm # <<>> THEN Some(SumCost(extraction_llm)) ELSE None,
         total_embedding_tokens |->
             IF embedding_llm # <<>> THEN Some(SumTokens(embedding_llm)) ELSE None,
         total_llm_tokens |->
             IF extraction_llm # <<>> THEN Some(SumTokens(extraction_llm)) ELSE None]

NoMetrics ==
    [total_embedding_cost |-> None, total_llm_cost |-> None,
     total_embedding_tokens |-> None, total_llm_tokens |-> None]

extract_error_message(result) ==
    IF result.body.item_error # None THEN result.body.item_error
    ELSE IF result.body.error # None THEN result.body.error
    ELSE Some("No error message found")

\* json.dumps(result): the text stored in the result column.  None is stored
\* as the four characters null, not as SQL NULL.
json_dumps(result) ==
    IF result = None THEN [json |-> "null"] ELSE [json |-> "value", value |-> result]

\* ------------------------------------------------------------------ ledger
\* The values update_db binds to the columns of its INSERT OR REPLACE, apart
\* from the key and the two timestamps.
update_db(execution_status, result, time_taken, status_code, status_api_endpoint) ==
    LET m == IF result # None THEN calculate_cost_and_tokens(result) ELSE NoMetrics
    IN  [execution_status |-> execution_status,
         result |-> json_dumps(result),
         time_taken |-> time_taken,
         status_code |-> status_code,
         status_api_endpoint |-> status_api_endpoint,
         total_embedding_cost |-> m.total_embedding_cost,
         total_embedding_tokens |-> m.total_embedding_tokens,
         total_llm_cost |-> m.total_llm_cost,
         total_llm_tokens |-> m.total_llm_tokens,
         error_message |->
             IF execution_status = "ERROR" THEN extract_error_message(result) ELSE None]

\* update_db raises before it opens the connection: the aggregation of a
\* non-null result, or extract_error_message(None).get.
UpdateDbRaises(execution_status, result) ==
    IF result = None THEN execution_status = "ERROR" ELSE CalcRaises(result)

\* c.fetchone() of a SELECT ... WHERE file_name = ?: the row, or None.
SelectRow(table, file_name) ==
    IF \E r \in table : r.file_name = file_name
    THEN CHOOSE r \in table : r.file_name = file_name
    ELSE None

\* update_db's statement without the COALESCE subquery: created_at is now.
InsertOrReplace_FreshCreatedAt(table, file_name, values, now) ==
    LET old == {r \in table : r.file_name = file_name}
    IN  (table \ old) \cup
        {values @@ [file_name |-> file_name, updated_at |-> now, created_at |-> now]}

\* The INSERT OR REPLACE of update_db at time now: file_name is UNIQUE, so the
\* row that holds the key is deleted and the new one inserted; created_at is
\* COALESCE((SELECT created_at ... WHERE file_name = ?), now).
InsertOrReplace(table, file_name, values, now) ==
    LET old == {r \in table : r.file_name = file_name}
        created_at == IF old = {} THEN now ELSE (CHOOSE r \in old : TRUE).created_at
    IN  (table \ old) \cup
        {values @@ [file_name |-> file_name, updated_at |-> now,
                    created_at |-> created_at]}

\* skip_file_processing treating a COMPLETED row like a pending one.
skip_file_processing_CompletedAsPending(row, a) ==
    IF row = None THEN a.skip_unprocessed
    ELSE IF row.execution_status = "ERROR" THEN ~a.retry_failed
    ELSE a.skip_pending

\* skip_file_processing with the retry_failed test the wrong way round.
skip_file_processing_RetryInverted(row, a) ==
    IF row = None THEN a.skip_unprocessed
    ELSE IF row.execution_status = "ERROR" THEN a.retry_failed
    ELSE IF row.execution_status = "COMPLETED" THEN TRUE
    ELSE a.skip_pending

\* skip_file_processing on the row SELECTed for the file (None: no row).
skip_file_processing(row, a) ==
    IF row = None THEN a.skip_unprocessed
    ELSE IF row.execution_status = "ERROR" THEN ~a.retry_failed
    ELSE IF row.execution_status = "COMPLETED" THEN TRUE
    ELSE a.skip_pending

\* get_status_endpoint selecting the stored handle whatever the row's status.
StoredEndpoint_NoStatusFilter(row, a) ==
    LET selected == IF row # None THEN row.status_api_endpoint ELSE None
    IN  IF a.retry_pending THEN None ELSE selected

\* get_status_endpoint dropping the stored handle whatever retry_pending says.
StoredEndpoint_AlwaysFresh(row, a) == None

\* get_status_endpoint keeping the stored handle whatever retry_pending says.
StoredEndpoint_IgnoresRetryPending(row, a) ==
    IF row # None /\ row.execution_status \notin Terminal
    THEN row.status_api_endpoint ELSE None

\* The handle get_status_endpoint keeps: the stored one of a row that is
\* neither COMPLETED nor ERROR, dropped when retry_pending is set.
StoredEndpoint(row, a) ==
    LET selected == IF row # None /\ row.execution_status \notin Terminal
                    THEN row.status_api_endpoint ELSE None
    IN  IF a.retry_pending THEN None ELSE selected

\* ------------------------------------------------------------------ state
VARIABLES
    files,           \* the files load_folder enumerated
    remote,          \* the environment of this behaviour: what the remote
                     \* service answers, how far the clock moves between writes
    width,           \* args.parallel_call_count
    args,            \* the four skip / retry flags of this run
    run,             \* which invocation of the program this is
    runState,        \* "running", "finished" (summary printed) or "aborted"
    db,              \* file_status: the set of its rows
    prior,           \* db as it was when this run started
    clock,           \* datetime.now() of the next ledger write
    pc,              \* file -> where its process_file call stands
    loc,             \* file -> the local variables of its process_file call
    success_count, failure_count, skipped_count,
    log              \* file -> the calls and ledger writes made for it in this run

vars == <<files, remote, width, args, run, runState, db, prior, clock, clock, pc, loc,
          success_count, failure_count, skipped_count, log>>

FileIds == 1 .. NumFiles

Flags ==
    [retry_failed : BOOLEAN, retry_pending : BOOLEAN,
     skip_pending : BOOLEAN, skip_unprocessed : BOOLEAN]

\* The locals of process_file (and the response held by get_status_endpoint
\* until it returns) before the first assignment.
Locals0 ==
    [status_endpoint |-> None, execution_status |-> "UNSET", response |-> None,
     status_code |-> None, result |-> None, submit_response |-> None, tmp |-> 0]

\* time_taken: round(end_time - start_time, 2), a number.
Elapsed == Some("seconds")

\* The handle a submission made in run r is given.
FreshEndpoint(r) == Some(r)

StatusCodeOf(st) == IF st = "COMPLETED" THEN Some(200)
                    ELSE IF st = "ERROR" THEN Some(500) ELSE Some(202)

\* What the remote may put in a terminal answer.
CompletedBodies == {BodyPlain, BodyMeta, BodyBadJson, BodyNonObject}
ErrorBodies == {BodyRemoteError}

\* The remote of a behaviour: the payloads of its COMPLETED answers, the
\* non-terminal statuses it reports and how many non-terminal answers it gives
\* to the status checks of one file in one run.  tick is how far the reading
\* of datetime.now() moves from one ledger write to the next; with tick 0 the
\* timestamps of a behaviour all read the same and carry no information.
FullRemote ==
    [completed |-> CompletedBodies, pending |-> NonTerminal, polls |-> MaxPolls,
     tick |-> 1]
PoolRemote ==
    [completed |-> {BodyPlain, BodyNonObject}, pending |-> {"PENDING"}, polls |-> 0,
     tick |-> 0]

\* Answers of client.structure_file: resolved at once (no handle) or accepted
\* for asynchronous processing (a handle to poll).
SubmitResponses(r) ==
    {Response("COMPLETED", StatusCodeOf("COMPLETED"), None, b) : b \in remote.completed}
    \cup {Response("ERROR", StatusCodeOf("ERROR"), None, b) : b \in ErrorBodies}
    \cup {Response(st, StatusCodeOf(st), FreshEndpoint(r), BodyPlain) : st \in remote.pending}

\* Answers of client.check_execution_status; a non-terminal one only while the
\* remote has given fewer than MaxPolls answers for the file in this run.
NumChecks(f) == Cardinality({i \in DOMAIN log[f] : log[f][i].op = "check"})

StatusResponses(f) ==
    {Response("COMPLETED", StatusCodeOf("COMPLETED"), None, b) : b \in remote.completed}
    \cup {Response("ERROR", StatusCodeOf("ERROR"), None, b) : b \in ErrorBodies}
    \cup IF NumChecks(f) < remote.polls
         THEN {Response(st, StatusCodeOf(st), None, BodyPlain) : st \in remote.pending}
         ELSE {}

WriteEvent(row, now) == [op |-> "write", row |-> row, now |-> now]
SubmitEvent == [op |-> "submit"]
CheckEvent(ep) == [op |-> "check", endpoint |-> ep]
StorageErrorEvent == [op |-> "storage_error"]

\* ------------------------------------------------------------------ workers
Running == runState = "running"

\* Files some worker of the pool is busy with.
Active == {f \in files : pc[f] \notin {"queued", "done", "raised"}}

\* imap_unordered hands the files out in list order to the next free worker.
CanStart(f) ==
    /\ pc[f] = "queued"
    /\ Cardinality(Active) < width
    /\ \A g \in files : g < f => pc[g] # "queued"

\* The rows SELECTed for file f: now, and when this run started.
Row(f) == SelectRow(db, f)
PriorRow(f) == SelectRow(prior, f)

Goto(f, label) == pc' = [pc EXCEPT ![f] = label]
Record(f, event) == log' = [log EXCEPT ![f] = Append(@, event)]

\* update_db from "now = datetime.now().isoformat()" to conn.commit().
Commit(f, row) ==
    /\ db' = InsertOrReplace(db, f, row, clock)
    /\ clock' = clock + remote.tick
    /\ Record(f, WriteEvent(row, clock))

\* The except branch of process_file: execution_status and result are set,
\* then failure_count is incremented.
Except(f, msg) ==
    /\ loc' = [loc EXCEPT ![f].execution_status = "ERROR",
                          ![f].result = ExceptionResult(msg)]
    /\ Goto(f, "failure_read")

\* The while test leaving the loop on COMPLETED only.
AfterLoopTest_PollsAfterError(st) == IF st = "COMPLETED" THEN "success_read" ELSE "poll"

\* The while test leaving the loop on ERROR only.
AfterLoopTest_StopsOnErrorOnly(st) == IF st = "ERROR" THEN "success_read" ELSE "poll"

\* Where the while test of process_file leads for an execution status.
AfterLoopTest(st) == IF st \in Terminal THEN "success_read" ELSE "poll"

\* process_file up to the skip decision: a worker takes the file and
\* skip_file_processing reads its row.
StartFile(f) ==
    /\ Running /\ CanStart(f)
    /\ Goto(f, IF skip_file_processing(Row(f), args) THEN "skipped_read" ELSE "query")
    /\ UNCHANGED <<files, remote, width, args, run, runState, db, prior, clock, loc,
                   success_count, failure_count, skipped_count, log>>

\* skipped_count.value += 1 is a read of the shared value ...
SkippedRead(f) ==
    /\ Running /\ pc[f] = "skipped_read"
    /\ loc' = [loc EXCEPT ![f].tmp = skipped_count]
    /\ Goto(f, "skipped_write")
    /\ UNCHANGED <<files, remote, width, args, run, runState, db, prior, clock,
                   success_count, failure_count, skipped_count, log>>

\* ... followed by a write of that value plus one; process_file returns.
SkippedWrite(f) ==
    /\ Running /\ pc[f] = "skipped_write"
    /\ skipped_count' = loc[f].tmp + 1
    /\ Goto(f, "done")
    /\ UNCHANGED <<files, remote, width, args, run, runState, db, prior, clock, loc,
                   success_count, failure_count, log>>

\* get_status_endpoint returning what it selected without the test
\* "if status_endpoint:".
QueryEndpoint_AlwaysResumes(f) ==
    /\ Running /\ pc[f] = "query"
    /\ loc' = [loc EXCEPT ![f].status_endpoint = StoredEndpoint(Row(f), args),
                          ![f].execution_status = "PENDING",
                          ![f].response = None]
    /\ Goto(f, AfterLoopTest("PENDING"))
    /\ UNCHANGED <<files, remote, width, args, run, runState, db, prior, clock,
                   success_count, failure_count, skipped_count, log>>

\* get_status_endpoint: the SELECT of a resumable handle.  A kept handle is
\* returned with status PENDING and no response; otherwise a fresh call follows.
QueryEndpoint(f) ==
    /\ Running /\ pc[f] = "query"
    /\ LET status_endpoint == StoredEndpoint(Row(f), args)
       IN  IF status_endpoint # None
           THEN /\ loc' = [loc EXCEPT ![f].status_endpoint = status_endpoint,
                                      ![f].execution_status = "PENDING",
                                      ![f].response = None]
                /\ Goto(f, AfterLoopTest("PENDING"))
           ELSE /\ Goto(f, "starting_write")
                /\ UNCHANGED loc
    /\ UNCHANGED <<files, remote, width, args, run, runState, db, prior, clock,
                   success_count, failure_count, skipped_count, log>>

\* get_status_endpoint: update_db(file_path, "STARTING", None, None, None, None).
StartingWrite(f) ==
    /\ Running /\ pc[f] = "starting_write"
    /\ Commit(f, update_db("STARTING", None, None, None, None))
    /\ Goto(f, "submit")
    /\ UNCHANGED <<files, remote, width, args, run, runState, prior, loc,
                   success_count, failure_count, skipped_count>>

\* get_status_endpoint: client.structure_file returns a response or raises.
Submit(f) ==
    /\ Running /\ pc[f] = "submit"
    /\ Record(f, SubmitEvent)
    /\ \/ \E response \in SubmitResponses(run) :
             /\ loc' = [loc EXCEPT ![f].submit_response = response]
             /\ Goto(f, "submit_write")
       \/ Except(f, "ClientError")
    /\ UNCHANGED <<files, remote, width, args, run, runState, db, prior, clock,
                   success_count, failure_count, skipped_count>>

\* get_status_endpoint: the write of the submit outcome, the return to
\* process_file and the first while test.
SubmitWrite(f) ==
    /\ Running /\ pc[f] = "submit_write"
    /\ LET response == loc[f].submit_response
           status_endpoint == response.status_check_api_endpoint
           execution_status == response.execution_status
           status_code == response.status_code
       IN  IF UpdateDbRaises(execution_status, response)
           THEN /\ Except(f, "AttributeError")
                /\ UNCHANGED <<db, clock, log>>
           ELSE LET row == update_db(execution_status, response, None,
                                     status_code, status_endpoint)
                IN  /\ Commit(f, row)
                    /\ loc' = [loc EXCEPT ![f].status_endpoint = status_endpoint,
                                          ![f].execution_status = execution_status,
                                          ![f].response = response,
                                          ![f].result =
                                              IF execution_status \in Terminal
                                              THEN response ELSE @]
                    /\ Goto(f, AfterLoopTest(execution_status))
    /\ UNCHANGED <<files, remote, width, args, run, runState, prior,
                   success_count, failure_count, skipped_count>>

\* The loop body up to the write: sleep, then client.check_execution_status
\* on the held handle returns a response or raises.
Poll(f) ==
    /\ Running /\ pc[f] = "poll"
    /\ Record(f, CheckEvent(loc[f].status_endpoint))
    /\ \/ \E response \in StatusResponses(f) :
             /\ loc' = [loc EXCEPT ![f].response = response,
                                   ![f].execution_status = response.execution_status,
                                   ![f].status_code = response.status_code]
             /\ Goto(f, "poll_write")
       \/ Except(f, "ClientError")
    /\ UNCHANGED <<files, remote, width, args, run, runState, db, prior, clock,
                   success_count, failure_count, skipped_count>>

\* The loop's update_db (result None) and the next while test.
PollWrite(f) ==
    /\ Running /\ pc[f] = "poll_write"
    /\ LET l == loc[f]
       IN  IF UpdateDbRaises(l.execution_status, None)
           THEN /\ Except(f, "AttributeError")
                /\ UNCHANGED <<db, clock, log>>
           ELSE LET row == update_db(l.execution_status, None, None,
                                     l.status_code, l.status_endpoint)
                IN  /\ Commit(f, row)
                    /\ loc' = [loc EXCEPT ![f].result =
                                   IF l.execution_status \in Terminal
                                   THEN l.response ELSE @]
                    /\ Goto(f, AfterLoopTest(l.execution_status))
    /\ UNCHANGED <<files, remote, width, args, run, runState, prior,
                   success_count, failure_count, skipped_count>>

SuccessRead(f) ==
    /\ Running /\ pc[f] = "success_read"
    /\ loc' = [loc EXCEPT ![f].tmp = success_count]
    /\ Goto(f, "success_write")
    /\ UNCHANGED <<files, remote, width, args, run, runState, db, prior, clock,
                   success_count, failure_count, skipped_count, log>>

SuccessWrite(f) ==
    /\ Running /\ pc[f] = "success_write"
    /\ success_count' = loc[f].tmp + 1
    /\ Goto(f, "final_write")
    /\ UNCHANGED <<files, remote, width, args, run, runState, db, prior, clock, loc,
                   failure_count, skipped_count, log>>

FailureRead(f) ==
    /\ Running /\ pc[f] = "failure_read"
    /\ loc' = [loc EXCEPT ![f].tmp = failure_count]
    /\ Goto(f, "failure_write")
    /\ UNCHANGED <<files, remote, width, args, run, runState, db, prior, clock,
                   success_count, failure_count, skipped_count, log>>

FailureWrite(f) ==
    /\ Running /\ pc[f] = "failure_write"
    /\ failure_count' = loc[f].tmp + 1
    /\ Goto(f, "final_write")
    /\ UNCHANGED <<files, remote, width, args, run, runState, db, prior, clock, loc,
                   success_count, skipped_count, log>>

\* The update_db after the try statement.  It is outside the try: what it
\* raises leaves process_file.
FinalWrite(f) ==
    /\ Running /\ pc[f] = "final_write"
    /\ LET l == loc[f]
       IN  IF UpdateDbRaises(l.execution_status, l.result)
           THEN /\ Goto(f, "raised")
                /\ UNCHANGED <<db, clock, log>>
           ELSE LET row == update_db(l.execution_status, l.result, Elapsed,
                                     l.status_code, l.status_endpoint)
                IN  /\ Commit(f, row)
                    /\ Goto(f, "done")
    /\ UNCHANGED <<files, remote, width, args, run, runState, prior, loc,
                   success_count, failure_count, skipped_count>>

\* sqlite3 raises in the ledger statement a worker is about to execute (the
\* database is locked, the disk is full).  The SELECT of skip_file_processing
\* and the last update_db are outside the try statement; the statements of
\* get_status_endpoint and of the loop are inside it.
StorageError(f) ==
    /\ Running
    /\ \/ /\ CanStart(f) \/ pc[f] = "final_write"
          /\ Goto(f, "raised")
          /\ UNCHANGED loc
       \/ /\ pc[f] \in {"query", "starting_write", "submit_write", "poll_write"}
          /\ Except(f, "OperationalError")
    /\ Record(f, StorageErrorEvent)
    /\ UNCHANGED <<files, remote, width, args, run, runState, db, prior, clock,
                   success_count, failure_count, skipped_count>>

\* ------------------------------------------------------------------ dispatcher
\* load_folder's loop has consumed every result; the summary is printed.
Finish ==
    /\ Running
    /\ \A f \in files : pc[f] = "done"
    /\ runState' = "finished"
    /\ UNCHANGED <<files, remote, width, args, run, db, prior, clock, pc, loc,
                   success_count, failure_count, skipped_count, log>>

\* imap_unordered re-raises what a process_file call raised: load_folder is
\* left, the pool is terminated and no summary is printed.
DispatcherRaise ==
    /\ Running
    /\ \E f \in files : pc[f] = "raised"
    /\ runState' = "aborted"
    /\ UNCHANGED <<files, remote, width, args, run, db, prior, clock, pc, loc,
                   success_count, failure_count, skipped_count, log>>

\* The program is started again on the same ledger and folder, after the
\* previous run ended or was killed where it stood.
api_deployment_batch_run ==
    /\ run < MaxRuns
    /\ run' = run + 1
    /\ args' \in Flags
    /\ runState' = "running"
    /\ prior' = db
    /\ pc' = [f \in files |-> "queued"]
    /\ loc' = [f \in files |-> Locals0]
    /\ log' = [f \in files |-> <<>>]
    /\ success_count' = 0 /\ failure_count' = 0 /\ skipped_count' = 0
    /\ UNCHANGED <<files, remote, width, db, clock>>

\* ------------------------------------------------------------------ specifications
\* The program is started on a folder fs and a ledger that holds table.
InitRunOn(fs, w, rem, flags, table, now) ==
    /\ files = fs
    /\ remote = rem
    /\ width = w
    /\ args \in flags
    /\ run = 1
    /\ runState = "running"
    /\ db = table
    /\ prior = db
    /\ clock = now
    /\ pc = [f \in fs |-> "queued"]
    /\ loc = [f \in fs |-> Locals0]
    /\ log = [f \in fs |-> <<>>]
    /\ success_count = 0 /\ failure_count = 0 /\ skipped_count = 0

\* The program is started on a ledger init_db has just created.
InitRun(fs, w, rem, flags) == InitRunOn(fs, w, rem, flags, {}, 1)

\* What an earlier run, killed while it polled file f, added to table: the
\* STARTING write at time now and the write of a PENDING submit response.
KilledWhilePending(table, f, now, tick) ==
    LET response == Response("PENDING", StatusCodeOf("PENDING"), FreshEndpoint(0),
                             BodyPlain)
        started == InsertOrReplace(table, f,
                       update_db("STARTING", None, None, None, None), now)
    IN  InsertOrReplace(started, f,
            update_db("PENDING", response, None, response.status_code,
                      response.status_check_api_endpoint),
            now + tick)

\* One run of the program: the workers' steps and the dispatcher's.
OneRun ==
    \/ \E f \in files : StartFile(f)
    \/ \E f \in files : SkippedRead(f)
    \/ \E f \in files : SkippedWrite(f)
    \/ \E f \in files : QueryEndpoint(f)
    \/ \E f \in files : StartingWrite(f)
    \/ \E f \in files : Submit(f)
    \/ \E f \in files : SubmitWrite(f)
    \/ \E f \in files : Poll(f)
    \/ \E f \in files : PollWrite(f)
    \/ \E f \in files : SuccessRead(f)
    \/ \E f \in files : SuccessWrite(f)
    \/ \E f \in files : FailureRead(f)
    \/ \E f \in files : FailureWrite(f)
    \/ \E f \in files : FinalWrite(f)
    \/ Finish
    \/ DispatcherRaise

\* The steps of the worker that holds file f.
Worker(f) ==
    \/ StartFile(f) \/ SkippedRead(f) \/ SkippedWrite(f)
    \/ QueryEndpoint(f) \/ StartingWrite(f) \/ Submit(f) \/ SubmitWrite(f)
    \/ Poll(f) \/ PollWrite(f)
    \/ SuccessRead(f) \/ SuccessWrite(f) \/ FailureRead(f) \/ FailureWrite(f)
    \/ FinalWrite(f)

\* One file, run after run on the same ledger.
Init == InitRun({1}, 1, FullRemote, Flags)
Next == OneRun \/ api_deployment_batch_run
Spec == Init /\ [][Next]_vars

\* One run of NumFiles files through a pool of PoolWidth workers.
\* The ledger is empty, so of the flags only skip_unprocessed is ever read.
PoolFlags == {a \in Flags : ~a.retry_failed /\ ~a.retry_pending /\ ~a.skip_pending}
InitPool == InitRun(FileIds, PoolWidth, PoolRemote, PoolFlags)
SpecPool == InitPool /\ [][OneRun]_vars

\* The pool run with every worker process and the dispatcher scheduled fairly.
SpecFair ==
    /\ InitPool /\ [][OneRun]_vars
    /\ \A f \in FileIds : WF_vars(Worker(f))
    /\ WF_vars(Finish) /\ WF_vars(DispatcherRaise)

\* The pool run on a ledger whose statements may fail.
InitStore == InitRun({1, 2}, PoolWidth, PoolRemote, PoolFlags)
NextStore == OneRun \/ \E f \in files : StorageError(f)
SpecStore == InitStore /\ [][NextStore]_vars

\* Two files through two workers with a clock that separates the writes.
\* File 1 has the row an earlier run left when it was killed, file 2 has none.
LedgerRemote == [PoolRemote EXCEPT !.tick = 1]
LedgerFlags == {a \in Flags : ~a.retry_failed /\ ~a.skip_pending}
InitLedger ==
    InitRunOn({1, 2}, PoolWidth, LedgerRemote, LedgerFlags,
              KilledWhilePending({}, 1, 1, 1), 3)
SpecLedger == InitLedger /\ [][OneRun]_vars

\* Two files through two workers on the ledger of an earlier run that was
\* killed while it polled both of them.
PendingFlags == {a \in Flags : ~a.retry_failed /\ ~a.skip_unprocessed}
InitPending ==
    InitRunOn({1, 2}, PoolWidth, PoolRemote, PendingFlags,
              KilledWhilePending(KilledWhilePending({}, 1, 1, 0), 2, 1, 0), 1)
SpecPending == InitPending /\ [][OneRun]_vars

\* One file, one run, against a remote whose COMPLETED answers carry one
\* payload out of AggBodies: every shape of nested result, and for an object
\* with metadata every pair of usage lists of at most MaxItems items.
AggItems == {Item(0, 0), Item(1, 10), Item(2, 20)}
AggLists == UNION {[1 .. n -> AggItems] : n \in 0 .. MaxItems}
AggBodies ==
    {BodyPlain, BodyBadJson, BodyNonObject}
    \cup {Body("object", m, e, l, None, None) :
              m \in BOOLEAN, e \in AggLists, l \in AggLists}
InitAgg ==
    \E b \in AggBodies :
        InitRun({1}, 1,
                [completed |-> {b}, pending |-> {"PENDING"}, polls |-> 0, tick |-> 0],
                PoolFlags)
SpecAgg == InitAgg /\ [][OneRun]_vars

\* ------------------------------------------------------------------ observations
Events(f, op) == {i \in DOMAIN log[f] : log[f][i].op = op}
Returned(f) == pc[f] = "done"
Ended(f) == pc[f] \in {"done", "raised"}

\* The file was skipped by the skip policy in this run.
Skipped(f) == pc[f] \in {"skipped_read", "skipped_write"} \/ (Returned(f) /\ log[f] = <<>>)

\* The row of the file when this run started was non-terminal with a handle.
PriorPending(f) ==
    /\ PriorRow(f) # None
    /\ PriorRow(f).execution_status \notin Terminal
    /\ PriorRow(f).status_api_endpoint # None

\* The terminal answer the remote gave for the file in this run, or None.
RemoteTerminal(f) ==
    IF loc[f].submit_response # None /\ loc[f].submit_response.execution_status \in Terminal
    THEN loc[f].submit_response
    ELSE IF loc[f].response # None /\ loc[f].response.execution_status \in Terminal
    THEN loc[f].response
    ELSE None

\* The submit call or a status check raised for the file in this run.
ClientRaised(f) == loc[f].result = ExceptionResult("ClientError")

\* ------------------------------------------------------------------ properties

\* C1: when a run of N files through a pool narrower than N ends, succeeded +
\* failed + skipped is exactly N, whatever the interleaving of the workers'
\* read-then-write counter updates.
C1_CountersSumToN ==
    runState = "finished" =>
        success_count + failure_count + skipped_count = Cardinality(files)

\* C2: a file whose row is non-terminal with a stored handle, run with
\* retry_pending and skip_pending unset, is never submitted, gets no STARTING
\* row, is polled on the stored handle only and ends with a terminal row.
ResumeCase(f) == PriorPending(f) /\ ~args.retry_pending /\ ~args.skip_pending

C2_ResumeWithoutSubmit ==
    \A f \in files : ResumeCase(f) =>
        /\ Events(f, "submit") = {}
        /\ \A i \in Events(f, "check") :
               log[f][i].endpoint = PriorRow(f).status_api_endpoint
        /\ \A i \in Events(f, "write") : log[f][i].row.execution_status # "STARTING"
        /\ log[f] # <<>> => log[f][1].op = "check"
        /\ ~Skipped(f)
        /\ Ended(f) => Row(f).execution_status \in Terminal

C2_Witness ==
    /\ ResumeCase(1) /\ Returned(1)
    /\ Row(1).execution_status = "COMPLETED"
    /\ Cardinality(Events(1, "check")) >= 2

\* C3: in every ledger state a row with status COMPLETED carries a result
\* and a time_taken, so a kill between two steps never leaves a row that later
\* runs skip as COMPLETED without its result.
C3_CompletedHasResult ==
    \A f \in files :
        (Row(f) # None /\ Row(f).execution_status = "COMPLETED") =>
            /\ Row(f).result # json_dumps(None)
            /\ Row(f).time_taken # None

\* C4: a failing ledger statement leaves process_file as an exception (it is
\* not turned into an ERROR outcome counted in failure_count), and it leaves
\* the processing of the other files alone.
C4_StorageErrorsPropagate ==
    \A f \in files : Events(f, "storage_error") # {} =>
        /\ pc[f] = "raised"
        /\ \A g \in files \ {f} : runState = "aborted" => Ended(g)

\* C5: when the client raises for a file, its row ends ERROR with result
\* {error: message} and an error_message; failure_count grows by exactly one
\* at that file's increment, the other two counters stay, and no other file's
\* row changes.
C5_ExceptionContained ==
    [][\A f \in files : ClientRaised(f) =>
          /\ (pc[f] = "failure_write" /\ pc'[f] = "final_write") =>
                 /\ failure_count' = failure_count + 1
                 /\ success_count' = success_count
                 /\ skipped_count' = skipped_count
          /\ (pc[f] = "final_write" /\ pc'[f] # "final_write") =>
                 /\ pc'[f] = "done"
                 /\ SelectRow(db', f).execution_status = "ERROR"
                 /\ SelectRow(db', f).result = json_dumps(ExceptionResult("ClientError"))
                 /\ SelectRow(db', f).error_message # None
                 /\ \A g \in files \ {f} : SelectRow(db', g) = Row(g)]_vars

\* C6: once the remote has reported COMPLETED or ERROR for a file, in the
\* submit response or in a status check, the file's processing ends without
\* an exception and its row has that status, that payload as result, a
\* time_taken and, for ERROR, the error message of that payload.  Stated for
\* the payloads the aggregation accepts, where nothing but the terminal write
\* itself is in play.
WellFormedTerminal(f) == RemoteTerminal(f) # None /\ ~CalcRaises(RemoteTerminal(f))

C6_TerminalWrite ==
    \A f \in files : (Ended(f) /\ WellFormedTerminal(f)) =>
        LET r == RemoteTerminal(f)
        IN  /\ pc[f] = "done"
            /\ Row(f).execution_status = r.execution_status
            /\ Row(f).result = json_dumps(r)
            /\ Row(f).time_taken # None
            /\ r.execution_status = "ERROR" =>
                   Row(f).error_message = extract_error_message(r)

\* C7: a file whose row is non-terminal with a stored handle, run with
\* retry_pending set and skip_pending unset, gets a STARTING row and a fresh
\* submit call, and is polled only on the handle of the new submit response,
\* never on the stored one.
ForcedCase(f) == PriorPending(f) /\ args.retry_pending /\ ~args.skip_pending

C7_ForcedResubmission ==
    \A f \in files : ForcedCase(f) =>
        /\ ~Skipped(f)
        /\ \A i \in Events(f, "check") :
               /\ log[f][i].endpoint # PriorRow(f).status_api_endpoint
               /\ log[f][i].endpoint = loc[f].submit_response.status_check_api_endpoint
               /\ i > 2
        /\ Len(log[f]) >= 1 =>
               /\ log[f][1].op = "write"
               /\ log[f][1].row = update_db("STARTING", None, None, None, None)
        /\ Len(log[f]) >= 2 => log[f][2] = SubmitEvent
        /\ Ended(f) => Len(log[f]) >= 2

C7_Witness ==
    /\ ForcedCase(1) /\ Returned(1)
    /\ Events(1, "check") # {}
    /\ Row(1).execution_status = "COMPLETED"

\* C8: at the end of a run succeeded is the number of files processed to a
\* COMPLETED row, failed the number processed to an ERROR row, skipped the
\* number of files the skip policy skipped.
C8_CountersReflectOutcomes ==
    runState = "finished" =>
        /\ success_count = Cardinality({f \in files :
               ~Skipped(f) /\ Row(f).execution_status = "COMPLETED"})
        /\ failure_count = Cardinality({f \in files :
               ~Skipped(f) /\ Row(f).execution_status = "ERROR"})
        /\ skipped_count = Cardinality({f \in files : Skipped(f)})

\* C9: with every call returning or raising, the remote reaching a terminal
\* answer and the workers scheduled fairly, every file reaches its outcome and
\* the run ends with its summary.
C9_BatchFinishes == <>(runState = "finished" /\ \A f \in files : Returned(f))

\* C10: the skip decision follows the table: no row -> skip_unprocessed,
\* ERROR -> not retry_failed, COMPLETED -> skip, any other status ->
\* skip_pending; retry_pending plays no part.
SkipTable(row, a) ==
    \/ row = None /\ a.skip_unprocessed
    \/ row # None /\ row.execution_status = "ERROR" /\ ~a.retry_failed
    \/ row # None /\ row.execution_status = "COMPLETED"
    \/ row # None /\ row.execution_status \notin Terminal /\ a.skip_pending

C10_SkipPolicyTable ==
    \A f \in files : pc[f] # "queued" =>
        /\ Skipped(f) <=> SkipTable(PriorRow(f), args)
        /\ \A b \in BOOLEAN :
               skip_file_processing(PriorRow(f), [args EXCEPT !.retry_pending = b])
                   <=> Skipped(f)

C10_Witness ==
    /\ PriorRow(1) # None /\ PriorRow(1).execution_status = "STARTING"
    /\ args.skip_pending /\ args.retry_pending
    /\ Returned(1) /\ Skipped(1)

\* C11: a file whose row is COMPLETED when a run starts is skipped by that
\* run under every combination of the four flags: no submit call, no status
\* check and no ledger write is made for it, and its row, timestamps
\* included, stays as it was.
PriorCompleted(f) == PriorRow(f) # None /\ PriorRow(f).execution_status = "COMPLETED"

C11_CompletedNeverReprocessed ==
    \A f \in files : PriorCompleted(f) =>
        /\ log[f] = <<>>
        /\ pc[f] \in {"queued", "skipped_read", "skipped_write", "done"}
        /\ Row(f) = PriorRow(f)

C11_Witness ==
    /\ PriorCompleted(1)
    /\ args.retry_failed /\ args.retry_pending
    /\ ~args.skip_pending /\ ~args.skip_unprocessed
    /\ Returned(1) /\ skipped_count = 1
    /\ Row(1).created_at < Row(1).updated_at

\* C12: the ledger holds at most one row per file, and one as soon as the
\* file was written; that row's created_at is the time of the first write of
\* the file ever made, every other column, updated_at included, is as the
\* latest write of the file set it, and the writes made for the other files
\* leave it alone.
Writes(f) == Events(f, "write")
FirstWrite(f) == log[f][CHOOSE i \in Writes(f) : \A j \in Writes(f) : i <= j]
LastWrite(f) == log[f][CHOOSE i \in Writes(f) : \A j \in Writes(f) : i >= j]

C12_IdempotentUpsert ==
    \A f \in files :
        /\ Cardinality({r \in db : r.file_name = f}) <= 1
        /\ Writes(f) = {} => Row(f) = PriorRow(f)
        /\ Writes(f) # {} =>
               /\ Row(f) # None
               /\ \A column \in DOMAIN LastWrite(f).row :
                      Row(f)[column] = LastWrite(f).row[column]
               /\ Row(f).updated_at = LastWrite(f).now
               /\ Row(f).created_at =
                      IF PriorRow(f) # None THEN PriorRow(f).created_at
                      ELSE FirstWrite(f).now

C12_Witness ==
    /\ PriorRow(1) # None /\ PriorRow(2) = None
    /\ Cardinality(Writes(1)) >= 3 /\ Cardinality(Writes(2)) >= 2
    /\ Row(1).created_at < Row(2).created_at
    /\ Row(2).created_at < Row(1).updated_at
    /\ Row(2).created_at < Row(2).updated_at
    /\ Row(2).updated_at = clock - 1

\* C13: a row has a handle in status_api_endpoint only while its status is
\* neither COMPLETED nor ERROR; every row written with a terminal status has
\* a null handle.
C13_TerminalRowHasNoHandle ==
    \A f \in files : Row(f) # None =>
        (Row(f).status_api_endpoint # None => Row(f).execution_status \notin Terminal)

\* C13, amended: a handle is handed out by the ledger only from a row that is
\* neither COMPLETED nor ERROR.  The query of get_status_endpoint yields none
\* for a terminal row under every flag combination, and a worker that polls
\* without having submitted started on a non-terminal row; a terminal row
\* written in this run holds a handle only if the file was polled on it.
C13_HandleOnlyFromNonTerminalRow ==
    \A f \in files :
        /\ (Row(f) # None /\ Row(f).execution_status \in Terminal) =>
               /\ \A a \in Flags : StoredEndpoint(Row(f), a) = None
               /\ (Writes(f) # {} /\ Row(f).status_api_endpoint # None) =>
                      \E i \in Events(f, "check") :
                          log[f][i].endpoint = Row(f).status_api_endpoint
        /\ (loc[f].status_endpoint # None /\ Events(f, "submit") = {}) =>
               PriorPending(f)

C13_Witness ==
    /\ PriorRow(1) # None /\ PriorRow(1).execution_status = "ERROR"
    /\ PriorRow(1).status_api_endpoint # None
    /\ args.retry_failed /\ ~args.retry_pending
    /\ Returned(1) /\ Events(1, "submit") # {}
    /\ Row(1).execution_status = "COMPLETED"
    /\ Row(1).status_api_endpoint = FreshEndpoint(run)

\* C14: the statuses written for one file in one run are STARTING, then
\* non-terminal statuses, then the terminal status; no write changes a
\* terminal status written in the run, and a file that was processed ends
\* with a terminal status written.
IsWrite(event) == event.op = "write"
WriteStatuses(f) ==
    LET w == SelectSeq(log[f], IsWrite)
    IN  [i \in 1 .. Len(w) |-> w[i].row.execution_status]

C14_StartingThenTerminal ==
    \A f \in files :
        LET s == WriteStatuses(f)
        IN  /\ s # <<>> => s[1] = "STARTING"
            /\ \A i \in 2 .. Len(s) : s[i] # "STARTING"
            /\ \A i \in 1 .. Len(s) - 1 : s[i] \in Terminal => s[i + 1] = s[i]
            /\ (Returned(f) /\ ~Skipped(f)) => (s # <<>> /\ s[Len(s)] \in Terminal)

\* C14, amended: the statuses written for a freshly submitted file are
\* STARTING, then non-terminal statuses, then the terminal status; those of a
\* file resumed on its stored handle are the same without the STARTING.  The
\* terminal status is written at most twice, unchanged, as the last writes.
Resumed(f) == log[f] # <<>> /\ log[f][1].op = "check"

C14_StatusSequence ==
    \A f \in files :
        LET s == WriteStatuses(f)
        IN  /\ Resumed(f) => PriorPending(f)
            /\ s # <<>> => (s[1] = "STARTING" <=> ~Resumed(f))
            /\ \A i \in 2 .. Len(s) : s[i] # "STARTING"
            /\ \A i \in 1 .. Len(s) - 1 :
                   s[i] \in Terminal => (s[i + 1] = s[i] /\ i + 1 = Len(s))
            /\ (Returned(f) /\ ~Skipped(f)) => (s # <<>> /\ s[Len(s)] \in Terminal)

C14_Witness ==
    /\ Resumed(1) /\ Returned(1)
    /\ WriteStatuses(1) = <<"EXECUTING", "COMPLETED", "COMPLETED">>

\* C15: with skip_pending and retry_pending both set, every file whose row is
\* neither COMPLETED nor ERROR is skipped: no submit call, no status check and
\* no write is made for it, its row and handle stay as they were, and the
\* skipped counter counts it.
BothFlagsCase(f) ==
    /\ args.skip_pending /\ args.retry_pending
    /\ PriorRow(f) # None /\ PriorRow(f).execution_status \notin Terminal

C15_SkipPendingWins ==
    \A f \in files : BothFlagsCase(f) =>
        /\ pc[f] # "queued" => Skipped(f)
        /\ log[f] = <<>>
        /\ Row(f) = PriorRow(f)
        /\ (\A g \in files : Returned(g)) =>
               skipped_count = Cardinality({g \in files : Skipped(g)})

\* C16: when the terminal answer for a file carries a nested extraction
\* result that is no JSON, or JSON of something else than an object, the
\* file's processing ends without an exception, its row has the status and
\* the payload of that answer, and the four metrics are null; on the
\* synchronous path and on the polled one.
Malformed(r) == r # None /\ r.body.data \in {"badjson", "nonobject"}

C16_MalformedPayloadHarmless ==
    \A f \in files : (Ended(f) /\ Malformed(RemoteTerminal(f))) =>
        LET r == RemoteTerminal(f)
        IN  /\ pc[f] = "done"
            /\ Row(f).execution_status = r.execution_status
            /\ Row(f).result = json_dumps(r)
            /\ \A metric \in DOMAIN NoMetrics : Row(f)[metric] = None

\* C17: of every row written with a result, total_embedding_cost and
\* total_embedding_tokens are the sums of the costs and of the tokens over the
\* embedding list of the nested metadata, and null, not zero, when that list is
\* absent or empty; total_llm_cost and total_llm_tokens are the same over the
\* extraction_llm list; each pair is decided by its own list alone.
RECURSIVE Total(_, _, _)
Total(list, field, n) == IF n = 0 THEN 0 ELSE list[n][field] + Total(list, field, n - 1)

UsageList(body, name) ==
    IF body.data = "object" /\ body.metadata THEN body[name] ELSE <<>>

Metric(list, field) ==
    IF Len(list) = 0 THEN None ELSE Some(Total(list, field, Len(list)))

C17_MetricSums ==
    \A f \in files : \A i \in Writes(f) :
        LET row == log[f][i].row
        IN  row.result # json_dumps(None) =>
                LET embedding == UsageList(row.result.value.body, "embedding")
                    llm == UsageList(row.result.value.body, "extraction_llm")
                IN  /\ row.total_embedding_cost = Metric(embedding, "cost_in_dollars")
                    /\ row.total_embedding_tokens = Metric(embedding, "tokens")
                    /\ row.total_llm_cost = Metric(llm, "cost_in_dollars")
                    /\ row.total_llm_tokens = Metric(llm, "tokens")

C17_Witness ==
    /\ Returned(1) /\ Row(1) # None
    /\ Row(1).execution_status = "COMPLETED" /\ Row(1).result # json_dumps(None)
    /\ Row(1).result.value.body.embedding = <<Item(1, 10), Item(2, 20)>>
    /\ Row(1).result.value.body.extraction_llm = <<>>
    /\ Row(1).total_embedding_tokens = Some(30)
    /\ Row(1).total_embedding_cost = Some(3)
    /\ Row(1).total_llm_cost = None /\ Row(1).total_llm_tokens = None

\* C18: in every ledger state a row whose status is neither COMPLETED nor
\* ERROR has a null result (what json.dumps stores for None): a payload is
\* stored only together with a terminal status.
C18_NonTerminalRowHasNoResult ==
    \A f \in files :
        (Row(f) # None /\ Row(f).execution_status \notin Terminal) =>
            Row(f).result = json_dumps(None)

\* C19: a file the skip policy skips has no client call and no write made for
\* it and keeps the row, or the absence of a row, it had; the step that counts
\* it adds exactly one to skipped_count and leaves success_count,
\* failure_count and the ledger alone.
C19_SkipChangesOnlyCounter ==
    [][\A f \in files :
          /\ Skipped(f) => (log[f] = <<>> /\ Row(f) = PriorRow(f))
          /\ (pc[f] = "skipped_write" /\ pc'[f] = "done") =>
                 /\ skipped_count' = skipped_count + 1
                 /\ success_count' = success_count
                 /\ failure_count' = failure_count
                 /\ db' = db /\ log' = log]_vars

\* C20: when the submit call is about to be made the file's row is the
\* STARTING row with null result and null handle; when the first status check
\* is about to be made the row has the status, status code and handle of the
\* submit response; and when a status check has returned, the row has the
\* status and status code it reported before the next status check is made or
\* the final write begins.
CheckReturned(f) ==
    /\ Events(f, "check") # {}
    /\ loc[f].response # None
    /\ ~ClientRaised(f)

C20_WriteBeforeNextStep ==
    \A f \in files :
        /\ pc[f] = "submit" =>
               /\ Row(f) # None
               /\ Row(f).execution_status = "STARTING"
               /\ Row(f).result = json_dumps(None)
               /\ Row(f).status_api_endpoint = None
        /\ (pc[f] = "poll" /\ Events(f, "submit") # {} /\ Events(f, "check") = {}) =>
               LET response == loc[f].submit_response
               IN  /\ Row(f).execution_status = response.execution_status
                   /\ Row(f).status_code = response.status_code
                   /\ Row(f).status_api_endpoint = response.status_check_api_endpoint
        /\ (pc[f] \in {"poll", "final_write"} /\ CheckReturned(f)) =>
               /\ Row(f).execution_status = loc[f].response.execution_status
               /\ Row(f).status_code = loc[f].response.status_code

\* C21: in one run a file is submitted at most once; once the submit call or
\* a status check has raised for it, or the remote has reported ERROR for it,
\* no further submit call or status check is made for it in that run; and a
\* file whose row is ERROR when a run starts is submitted in that run only if
\* retry_failed is set.
IsCall(event) == event.op \in {"submit", "check"}
CallsIn(events) == SelectSeq(events, IsCall)

ErrorReported(f) ==
    RemoteTerminal(f) # None /\ RemoteTerminal(f).execution_status = "ERROR"

PriorError(f) == PriorRow(f) # None /\ PriorRow(f).execution_status = "ERROR"

C21_NoRetryWithinRun ==
    [][\A f \in files :
          /\ Cardinality(Events(f, "submit")) <= 1
          /\ ((ClientRaised(f) \/ ErrorReported(f)) /\ run' = run) =>
                 CallsIn(log'[f]) = CallsIn(log[f])
          /\ (PriorError(f) /\ Events(f, "submit") # {}) => args.retry_failed]_vars

C21_Witness ==
    /\ PriorError(1) /\ args.retry_failed
    /\ Cardinality(Events(1, "submit")) = 1
    /\ Events(1, "check") # {}
    /\ ErrorReported(1)
    /\ Returned(1) /\ Row(1).execution_status = "ERROR"

\* C22: a file whose row is ERROR and that is processed again (retry_failed
\* set), and a file whose row is STARTING without a handle and that is
\* processed again (skip_pending unset), is submitted afresh: STARTING write,
\* submit call, and only then status checks.  No status check is made on a
\* handle read from a COMPLETED or ERROR row, and none without a handle: a
\* status check not preceded by a submit call uses the handle of the
\* non-terminal row the run started on.
PriorStarting(f) ==
    /\ PriorRow(f) # None
    /\ PriorRow(f).execution_status = "STARTING"
    /\ PriorRow(f).status_api_endpoint = None

ReprocessedCase(f) ==
    \/ PriorError(f) /\ args.retry_failed
    \/ PriorStarting(f) /\ ~args.skip_pending

C22_TerminalNeverResumed ==
    \A f \in files :
        /\ ReprocessedCase(f) =>
               /\ ~Skipped(f)
               /\ Len(log[f]) >= 1 =>
                      /\ log[f][1].op = "write"
                      /\ log[f][1].row.execution_status = "STARTING"
               /\ Len(log[f]) >= 2 => log[f][2] = SubmitEvent
               /\ Ended(f) => Len(log[f]) >= 2
        /\ \A i \in Events(f, "check") :
               /\ log[f][i].endpoint # None
               /\ (\A j \in Events(f, "submit") : j > i) =>
                      /\ PriorPending(f)
                      /\ log[f][i].endpoint = PriorRow(f).status_api_endpoint
               /\ (PriorRow(f) # None /\ PriorRow(f).execution_status \in Terminal) =>
                      log[f][i].endpoint # PriorRow(f).status_api_endpoint

C22_Witness ==
    /\ PriorError(1) /\ PriorRow(1).status_api_endpoint # None
    /\ args.retry_failed /\ ~args.retry_pending
    /\ Returned(1) /\ Events(1, "check") # {}
    /\ Row(1).execution_status = "COMPLETED"

====
